---- MODULE Spec2Model ----
(***************************************************************************)
(* Model of the 18comic image descrambler: get_num (segment count from     *)
(* album id and photo id), restore_image (band reassembly) and the         *)
(* per-image download loops of main.py and batch_download.py.              *)
(***************************************************************************)
EXTENDS Integers, Sequences, FiniteSets, TLC

(***************************************************************************)
(* State                                                                   *)
(***************************************************************************)
VARIABLES
    call,           \* frame of the latest get_num call of the test driver
    memo,           \* frame of one earlier get_num call (result1 of the test)
    ncalls,         \* number of get_num calls made so far
    prog,           \* the program that runs: "main", "batch", or "none"
    album,          \* AlbumInfo returned by scrape_album: aid and images
    img_info,       \* position of the for loop in album.images (0: before)
    pc,             \* position of the program
    files,          \* the output directory: the file of each image
    failed,         \* per image, the stage whose exception was caught
    scrambled_data, \* bytes returned by download_image
    scrambled_img,  \* restore_image: the image opened from scrambled_data
    num_segments,   \* restore_image: result of get_num
    restored_img,   \* restore_image: the image being assembled
    g,              \* restore_image: next value of the loop variable
    h,              \* restore_image: band height of the latest pass
    u,              \* restore_image: destination top of the latest pass
    p,              \* restore_image: source top of the latest pass
    written,        \* per row of restored_img, how often paste wrote it
    taken,          \* per row of scrambled_img, how often crop read it
    orig,           \* the image before the site scrambled it
    kind,           \* how scrambled_img was made from orig
    run,            \* which run of the program this is, from 1
    downloads,      \* number of download_image calls of the loop in this run
    prev_ok,        \* the run before ended with no image failed
    start_files,    \* the output directory when this run started
    url,            \* download_image: the URL it was given, by its parts
    response,       \* download_image: what the server answers
    data,           \* download_image: number of bytes in data
    requests,       \* download_image: HTTP requests issued
    raised          \* download_image: how the call ended

(***************************************************************************)
(* descrambler.py: protocol values                                         *)
(***************************************************************************)
\* The table cut to the entries the modulus 8 reaches.
SEGMENT_MAP_Short == <<2, 4, 6, 8, 10, 12, 14, 16>>

SEGMENT_MAP == <<2, 4, 6, 8, 10, 12, 14, 16, 18, 20>>

SCRAMBLE_THRESHOLD == 220980

RANGE_268850_421925 == <<268850, 421925>>

RANGE_421926_PLUS == 421926

\* Album ids the calls are drawn from: both sides of every range boundary,
\* and the album of the regression test.
AlbumIds == {0, 220979, 220980, 268849, 268850, 421925, 421926, 1223474}

\* Photo ids the calls are drawn from.  Together they give every album id
\* at or above the threshold each of the 16 possible last hex digits.
PhotoIds ==
    {"00001", "00002", "00003", "00005", "00014", "00015", "00017", "00031",
     "00042", "00051", "00053", "00065", "00083", "00088", "00101", "00115",
     "00127", "00128", "00220", "00326", "00379", "cover"}

\* str(aid): decimal rendering of a non-negative integer.
DecimalDigit == <<"0", "1", "2", "3", "4", "5", "6", "7", "8", "9">>

RECURSIVE str(_)
str(n) ==
    IF n < 10 THEN DecimalDigit[n + 1]
    ELSE str(n \div 10) \o DecimalDigit[(n % 10) + 1]

\* hashlib.md5(combined.encode()).hexdigest()[-1]: the last hex digit of the
\* MD5 digest, tabulated for the strings str(aid) + photo_id over
\* AlbumIds \X PhotoIds.
md5_last_char(combined) ==
    CASE combined \in {
         "000015", "22098000379", "26884900014", "26884900017",
         "26885000003", "42192500220", "42192600128", "122347400326"} -> "0"
      [] combined \in {
         "000005", "000053", "22097900017", "22097900101", "22098000017",
         "22098000031", "220980cover", "26884900002", "26884900042",
         "26884900115", "26885000014", "42192500002", "42192600005",
         "42192600017", "122347400083", "122347400379"} -> "1"
      [] combined \in {
         "000014", "0cover", "22098000115", "26884900053", "26885000101",
         "26885000127", "26885000128", "42192500065", "42192600115",
         "122347400001", "122347400017"} -> "2"
      [] combined \in {
         "000031", "000042", "22097900127", "220979cover", "22098000053",
         "26884900326", "26885000002", "42192500053", "42192600088",
         "42192600127", "42192600326", "122347400128"} -> "3"
      [] combined \in {
         "22098000101", "26884900005", "26885000379", "42192500379",
         "42192600014", "42192600101", "122347400003", "122347400220"} -> "4"
      [] combined \in {
         "000379", "22097900015", "22097900088", "22097900379",
         "22098000014", "26884900031", "26884900101", "26885000005",
         "26885000015", "42192500326", "42192600002", "42192600065",
         "122347400005"} -> "5"
      [] combined \in {
         "000003", "000101", "22097900031", "22097900326", "22098000127",
         "26884900127", "268849cover", "26885000088", "42192500088",
         "42192600220", "122347400014"} -> "6"
      [] combined \in {
         "000326", "22097900014", "22097900051", "22097900065",
         "22098000088", "26884900220", "26885000326", "42192500083",
         "42192600053", "122347400051", "1223474cover"} -> "7"
      [] combined \in {
         "000088", "000128", "22097900128", "22098000128", "22098000220",
         "26884900003", "26884900083", "26885000220", "42192500005",
         "42192600015", "122347400015"} -> "8"
      [] combined \in {
         "000002", "000083", "22097900001", "22098000002", "26884900128",
         "26885000031", "42192500031", "42192500042", "42192600003",
         "122347400031"} -> "9"
      [] combined \in {
         "000065", "000220", "22097900042", "22098000042", "26884900065",
         "26885000115", "42192500127", "42192600083", "122347400002",
         "122347400088"} -> "a"
      [] combined \in {
         "000001", "000051", "000127", "22097900115", "22098000065",
         "22098000326", "26884900015", "26885000042", "26885000083",
         "42192500001", "42192600042", "122347400101"} -> "b"
      [] combined \in {
         "000017", "000115", "22097900005", "22098000051", "26884900379",
         "26885000017", "42192500003", "42192500101", "42192600031",
         "421926cover", "122347400065"} -> "c"
      [] combined \in {
         "22098000001", "22098000005", "26884900001", "26885000051",
         "42192500014", "42192500015", "42192500017", "42192500128",
         "42192600379", "122347400127"} -> "d"
      [] combined \in {
         "22097900053", "22097900083", "22097900220", "22098000003",
         "22098000015", "26884900051", "26885000053", "26885000065",
         "268850cover", "42192500051", "421925cover", "42192600051",
         "122347400053"} -> "e"
      [] combined \in {
         "22097900002", "22097900003", "22098000083", "26884900088",
         "26885000001", "42192500115", "42192600001", "122347400042",
         "122347400115"} -> "f"

\* The value of a hex digit instead of its code point.
ord_HexValue(c) ==
    CASE c = "0" -> 0 [] c = "1" -> 1 [] c = "2" -> 2 [] c = "3" -> 3
      [] c = "4" -> 4 [] c = "5" -> 5 [] c = "6" -> 6 [] c = "7" -> 7
      [] c = "8" -> 8 [] c = "9" -> 9 [] c = "a" -> 10 [] c = "b" -> 11
      [] c = "c" -> 12 [] c = "d" -> 13 [] c = "e" -> 14 [] c = "f" -> 15

\* ord(last_char) for the characters a hex digest is made of.
ord(c) ==
    CASE c = "0" -> 48 [] c = "1" -> 49 [] c = "2" -> 50 [] c = "3" -> 51
      [] c = "4" -> 52 [] c = "5" -> 53 [] c = "6" -> 54 [] c = "7" -> 55
      [] c = "8" -> 56 [] c = "9" -> 57 [] c = "a" -> 97 [] c = "b" -> 98
      [] c = "c" -> 99 [] c = "d" -> 100 [] c = "e" -> 101 [] c = "f" -> 102

\* The outcome of SEGMENT_MAP[index] when index is not a position of the list.
IndexError == -1

\* A local of get_num that the call did not assign.
Unset == -1

\* The threshold test with the threshold itself counted as unscrambled.
NotScrambled_Inclusive(aid) == aid <= SCRAMBLE_THRESHOLD

\* if aid < SCRAMBLE_THRESHOLD: return 0
NotScrambled(aid) == aid < SCRAMBLE_THRESHOLD

\* The index taken modulo 10 in every range.
SegmentIndex_AlwaysTen(aid, char_code) == char_code % 10

\* The index shifted by the number of calls made before.
SegmentIndex_Drifting(aid, char_code) ==
    IF RANGE_268850_421925[1] <= aid /\ aid <= RANGE_268850_421925[2]
    THEN (char_code + ncalls) % 10
    ELSE IF aid >= RANGE_421926_PLUS
         THEN (char_code + ncalls) % 8
         ELSE (char_code + ncalls) % 10

\* The branch of get_num that picks the index from char_code.
SegmentIndex(aid, char_code) ==
    IF RANGE_268850_421925[1] <= aid /\ aid <= RANGE_268850_421925[2]
    THEN char_code % 10
    ELSE IF aid >= RANGE_421926_PLUS
         THEN char_code % 8
         ELSE char_code % 10

\* SEGMENT_MAP[index], Python list indexing from 0.
SegmentLookup(index) ==
    IF index + 1 \in DOMAIN SEGMENT_MAP THEN SEGMENT_MAP[index + 1]
    ELSE IndexError

\* The frame of one call get_num(aid, photo_id): its arguments, the locals
\* it assigned and the value it returned.
get_num_frame(aid, photo_id) ==
    IF NotScrambled(aid)
    THEN [aid |-> aid, photo_id |-> photo_id, last_char |-> "",
          char_code |-> Unset, index |-> Unset, ret |-> 0]
    ELSE LET combined == str(aid) \o photo_id
             last_char == md5_last_char(combined)
             char_code == ord(last_char)
             index == SegmentIndex(aid, char_code)
         IN  [aid |-> aid, photo_id |-> photo_id, last_char |-> last_char,
              char_code |-> char_code, index |-> index,
              ret |-> SegmentLookup(index)]

get_num(aid, photo_id) == get_num_frame(aid, photo_id).ret


(***************************************************************************)
(* PIL images.  An image is its mode, its size (width, height) and its     *)
(* rows from top to bottom; a row is one opaque full-width strip.          *)
(***************************************************************************)
\* The row of an image that Image.new just allocated (all-zero pixels), and
\* of the part of a crop that lies outside the source.
Blank == 0

Image_new(mode, size) ==
    [mode |-> mode, size |-> size, rows |-> [k \in 1..size[2] |-> Blank]]

\* img.crop(box), box = (left, upper, right, lower) with left = 0 and
\* right = width: the rows upper..lower-1 of img (counted from 0).
crop(img, box) ==
    [mode |-> img.mode,
     size |-> <<box[3] - box[1], box[4] - box[2]>>,
     rows |-> [k \in 1..(box[4] - box[2]) |->
                  IF box[2] + k \in 1..img.size[2]
                  THEN img.rows[box[2] + k] ELSE Blank]]

\* img.paste(segment, (0, upper)): the rows of segment replace the rows of
\* img from row upper (counted from 0) on, clipped to img.
paste(img, segment, upper) ==
    [img EXCEPT !.rows =
        [j \in 1..img.size[2] |->
            IF j - upper \in 1..segment.size[2]
            THEN segment.rows[j - upper] ELSE img.rows[j]]]

(***************************************************************************)
(* restore_image: the geometry of band g                                   *)
(***************************************************************************)
\* slice_height = height // num_segments
SliceHeight(height, num) == height \div num

\* remainder = height % num_segments
Remainder(height, num) == height % num

\* BandHeight with every band taking the remainder.
BandHeight_AllTaller(slice_height, remainder, band) ==
    slice_height + remainder

\* BandHeight with band 0 not taking the remainder.
BandHeight_NoRemainder(slice_height, remainder, band) == slice_height

\* h: the height of band g
BandHeight(slice_height, remainder, band) ==
    IF band = 0 THEN slice_height + remainder ELSE slice_height

\* DestTop without the shift of the later bands.
DestTop_NoShift(slice_height, remainder, band) == slice_height * band

\* u: the top of band g in the restored image
DestTop(slice_height, remainder, band) ==
    IF band = 0 THEN slice_height * band
    ELSE slice_height * band + remainder

\* SrcTop counted from the top of the scrambled image.
SrcTop_TopDown(height, slice_height, remainder, band) == slice_height * band

\* SrcTop without the remainder.
SrcTop_NoRemainder(height, slice_height, remainder, band) ==
    height - slice_height * (band + 1)

\* p: the top of band g in the scrambled image
SrcTop(height, slice_height, remainder, band) ==
    height - slice_height * (band + 1) - remainder

\* BandCopy with width and height taken from the size in the wrong order.
BandCopy_SwappedSize(src, dst, num, band) ==
    LET width == src.size[2]
        height == src.size[1]
        slice_height == SliceHeight(height, num)
        remainder == Remainder(height, num)
        hh == BandHeight(slice_height, remainder, band)
        uu == DestTop(slice_height, remainder, band)
        pp == SrcTop(height, slice_height, remainder, band)
        box == <<0, pp, width, pp + hh>>
        segment == crop(src, box)
    IN  paste(dst, segment, uu)

\* One pass of the loop body: crop band g out of the scrambled image and
\* paste it into the restored one.
BandCopy(src, dst, num, band) ==
    LET width == src.size[1]
        height == src.size[2]
        slice_height == SliceHeight(height, num)
        remainder == Remainder(height, num)
        hh == BandHeight(slice_height, remainder, band)
        uu == DestTop(slice_height, remainder, band)
        pp == SrcTop(height, slice_height, remainder, band)
        box == <<0, pp, width, pp + hh>>
        segment == crop(src, box)
    IN  paste(dst, segment, uu)

(***************************************************************************)
(* Groups of variables, and their values while a part is not running      *)
(***************************************************************************)
numVars == <<call, memo, ncalls>>

loopVars == <<prog, album, img_info, files, failed, scrambled_data>>

restoreVars == <<scrambled_img, num_segments, restored_img, g, h, u, p,
                 written, taken, orig, kind>>

runVars == <<run, downloads, prev_ok, start_files>>

downloadVars == <<url, response, data, requests, raised>>

vars == <<numVars, loopVars, restoreVars, runVars, downloadVars, pc>>

NoCall == [aid |-> Unset, photo_id |-> "", last_char |-> "",
           char_code |-> Unset, index |-> Unset, ret |-> Unset]

\* No image: an unassigned image variable, an absent file.
NoImage == [mode |-> "", size |-> <<0, 0>>, rows |-> <<>>]

NoAlbum == [aid |-> Unset, images |-> <<>>]

\* An image of the given size whose row k has content k.
Labelled(mode, width, height) ==
    [mode |-> mode, size |-> <<width, height>>,
     rows |-> [k \in 1..height |-> k]]

ZeroCounts(height) == [k \in 1..height |-> 0]

NumIdle ==
    /\ call = NoCall
    /\ memo = NoCall
    /\ ncalls = 0

LoopIdle ==
    /\ prog = "none"
    /\ album = NoAlbum
    /\ img_info = 0
    /\ files = <<>>
    /\ failed = <<>>
    /\ scrambled_data = NoImage

NoUrl == [scheme |-> "", userinfo |-> "", host |-> "", port |-> ""]

NoResponse == [status |-> Unset, content_length |-> Unset, body |-> Unset]

DownloadIdle ==
    /\ url = NoUrl
    /\ response = NoResponse
    /\ data = Unset
    /\ requests = 0
    /\ raised = "none"

RunIdle ==
    /\ run = 1
    /\ downloads = 0
    /\ prev_ok = FALSE
    /\ start_files = <<>>

RestoreIdle ==
    /\ scrambled_img = NoImage
    /\ num_segments = Unset
    /\ restored_img = NoImage
    /\ g = Unset
    /\ h = Unset
    /\ u = Unset
    /\ p = Unset
    /\ written = <<>>
    /\ taken = <<>>
    /\ orig = NoImage
    /\ kind = "none"

(***************************************************************************)
(* get_num called repeatedly, as tests/test_descrambler.py does.           *)
(***************************************************************************)
\* Number of get_num calls in one run of the test driver.
MaxCalls == 2

InitNum ==
    /\ NumIdle
    /\ DownloadIdle
    /\ LoopIdle
    /\ RestoreIdle
    /\ RunIdle
    /\ pc = "test"

\* result = get_num(aid, photo_id); the caller keeps the previous result
\* (result1) or the one it kept before.
CallGetNum ==
    \E aid \in AlbumIds, photo_id \in PhotoIds, keep \in BOOLEAN :
        /\ pc = "test"
        /\ ncalls < MaxCalls
        /\ ncalls' = ncalls + 1
        /\ call' = get_num_frame(aid, photo_id)
        /\ memo' = IF keep THEN call ELSE memo
        /\ UNCHANGED <<loopVars, restoreVars, runVars, downloadVars, pc>>

NextNum == CallGetNum

SpecNum == InitNum /\ [][NextNum]_vars

(***************************************************************************)
(* restore_image, from the test of num_segments on                         *)
(***************************************************************************)
\* The early return handing out a newly allocated image.
PassThrough_Blank ==
    /\ pc = "check"
    /\ num_segments = 0
    /\ restored_img' = Image_new(scrambled_img.mode, scrambled_img.size)
    /\ pc' = "returned"
    /\ UNCHANGED <<numVars, downloadVars, runVars, loopVars, scrambled_img, num_segments, g, h, u,
                   p, written, taken, orig, kind>>

\* if num_segments == 0: return scrambled_img
PassThrough ==
    /\ pc = "check"
    /\ num_segments = 0
    /\ restored_img' = scrambled_img
    /\ pc' = "returned"
    /\ UNCHANGED <<numVars, downloadVars, runVars, loopVars, scrambled_img, num_segments, g, h, u,
                   p, written, taken, orig, kind>>

\* restored_img = Image.new(scrambled_img.mode, (width, height)), and entry
\* into the loop
Allocate ==
    /\ pc = "check"
    /\ num_segments # 0
    /\ restored_img' = Image_new(scrambled_img.mode, scrambled_img.size)
    /\ g' = 0
    /\ pc' = "bands"
    /\ UNCHANGED <<numVars, downloadVars, runVars, loopVars, scrambled_img, num_segments, h, u, p,
                   written, taken, orig, kind>>

\* One pass of "for g in range(num_segments)".
BandIter ==
    /\ pc = "bands"
    /\ g < num_segments
    /\ LET height == scrambled_img.size[2]
           slice_height == SliceHeight(height, num_segments)
           remainder == Remainder(height, num_segments)
           hh == BandHeight(slice_height, remainder, g)
           uu == DestTop(slice_height, remainder, g)
           pp == SrcTop(height, slice_height, remainder, g)
       IN  /\ h' = hh
           /\ u' = uu
           /\ p' = pp
           /\ restored_img' = BandCopy(scrambled_img, restored_img,
                                       num_segments, g)
           /\ written' = [k \in 1..height |->
                             IF k - uu \in 1..hh THEN written[k] + 1
                             ELSE written[k]]
           /\ taken' = [k \in 1..height |->
                           IF k - pp \in 1..hh THEN taken[k] + 1
                           ELSE taken[k]]
    /\ g' = g + 1
    /\ UNCHANGED <<numVars, downloadVars, runVars, loopVars, scrambled_img, num_segments, orig,
                   kind, pc>>

\* return restored_img, after the last pass
Return ==
    /\ pc = "bands"
    /\ g >= num_segments
    /\ pc' = "returned"
    /\ UNCHANGED <<numVars, downloadVars, runVars, loopVars, restoreVars>>

(***************************************************************************)
(* The band loop on its own: restore_image entered with a given image and  *)
(* a given segment count.                                                  *)
(***************************************************************************)
\* Largest image height tried.
MaxHeight == 22

\* Largest segment count get_num can return.
MaxSegments == SEGMENT_MAP[Len(SEGMENT_MAP)]

Modes == {"RGB", "L"}

Widths == {1, 2}

\* The scrambling transform of the site, band by band: band `band` of the
\* original, slice_height rows from row slice_height * band on (band 0 is
\* taller by the remainder, the later bands start lower by the remainder),
\* is drawn into the scrambled picture at top
\* height - slice_height * (band + 1) - remainder.  `every` tells whether
\* the remainder is subtracted for every band or for band 0 only.
RECURSIVE Forward(_, _, _, _, _)
Forward(original, dst, num, band, every) ==
    IF band >= num THEN dst
    ELSE LET width == original.size[1]
             height == original.size[2]
             slice == height \div num
             rest == height % num
             rows == IF band = 0 THEN slice + rest ELSE slice
             from == IF band = 0 THEN 0 ELSE slice * band + rest
             to == height - slice * (band + 1)
                       - (IF every \/ band = 0 THEN rest ELSE 0)
             segment == crop(original, <<0, from, width, from + rows>>)
         IN  Forward(original, paste(dst, segment, to), num, band + 1, every)

\* The forward scramble with the remainder subtracted for band 0 only.
ForwardBandZero(original, num) ==
    Forward(original, Image_new(original.mode, original.size), num, 0, FALSE)

\* The forward scramble with the remainder subtracted for every band.
ForwardEveryBand(original, num) ==
    Forward(original, Image_new(original.mode, original.size), num, 0, TRUE)

Kinds == {"plain", "band0", "every"}

\* The heights tried: every height up to MaxHeight, and one tall image, of
\* 100 rows, which 3, 6, 7 and others do not divide.
Heights == (1..MaxHeight) \cup {100}

InitBand ==
    /\ NumIdle
    /\ DownloadIdle
    /\ LoopIdle
    /\ RunIdle
    /\ \E mode \in Modes, width \in Widths, height \in Heights :
          orig = Labelled(mode, width, height)
    /\ num_segments \in 1..MaxSegments
    /\ kind \in Kinds
    /\ scrambled_img =
          CASE kind = "plain" -> orig
            [] kind = "band0" -> ForwardBandZero(orig, num_segments)
            [] kind = "every" -> ForwardEveryBand(orig, num_segments)
    /\ restored_img = NoImage
    /\ g = Unset
    /\ h = Unset
    /\ u = Unset
    /\ p = Unset
    /\ written = ZeroCounts(orig.size[2])
    /\ taken = ZeroCounts(orig.size[2])
    /\ pc = "check"

NextBand == Allocate \/ BandIter \/ Return

SpecBand == InitBand /\ [][NextBand]_vars

(***************************************************************************)
(* The per-image loops of main.main and                                    *)
(* batch_download.download_chapter_images                                  *)
(***************************************************************************)
\* Largest number of images in an album.
MaxImages == 2

\* Largest height of a downloaded image.
MaxDataHeight == 5

\* The photo ids of the images of an album, in page order.
AlbumPhotoIds == <<"00001", "00002", "00003">>

\* album.images for an album of n images: ImageInfo(photo_id, index).
AlbumImages(n) ==
    [k \in 1..n |-> [photo_id |-> AlbumPhotoIds[k], index |-> k]]

\* Bytes that are not an image: Image.open raises on them.
Garbage == [mode |-> "undecodable", size |-> <<0, 0>>, rows |-> <<>>]

\* A file that a failed save left behind.
Truncated == [mode |-> "truncated", size |-> <<0, 0>>, rows |-> <<>>]

\* What download_image can return.
Payloads ==
    {Labelled("RGB", 1, height) : height \in 1..MaxDataHeight} \cup {Garbage}

\* A file written by an earlier run.
Existing == Labelled("RGB", 1, 1)

Init ==
    /\ NumIdle
    /\ DownloadIdle
    /\ RestoreIdle
    /\ prog \in {"main", "batch"}
    /\ \E aid \in AlbumIds, n \in 1..MaxImages :
          /\ album = [aid |-> aid, images |-> AlbumImages(n)]
          /\ files \in [1..n -> {NoImage, Existing}]
          /\ failed = [k \in 1..n |-> "none"]
    /\ run = 1
    /\ downloads = 0
    /\ prev_ok = FALSE
    /\ start_files = files
    /\ img_info = 0
    /\ scrambled_data = NoImage
    /\ pc = "for"

\* for img_info in album.images: the next image
ForNext ==
    /\ pc = "for"
    /\ img_info < Len(album.images)
    /\ img_info' = img_info + 1
    /\ pc' = "exists"
    /\ UNCHANGED <<numVars, downloadVars, runVars, restoreVars, prog, album, files, failed,
                   scrambled_data>>

\* for img_info in album.images: the list is exhausted
ForEnd ==
    /\ pc = "for"
    /\ img_info = Len(album.images)
    /\ pc' = "done"
    /\ UNCHANGED <<numVars, downloadVars, runVars, loopVars, restoreVars>>

\* The test looking at a path no file is ever written to.
Exists_WrongPath(k) == FALSE

\* output_path.exists(), for the output path of image k
Exists(k) == files[k] # NoImage

\* if output_path.exists(): continue
SkipExisting ==
    /\ pc = "exists"
    /\ Exists(img_info)
    /\ pc' = "for"
    /\ UNCHANGED <<numVars, downloadVars, runVars, loopVars, restoreVars>>

\* The exception ending the loop.
AfterException_Abort(program) == "done"

\* Where the loop goes on after "except Exception": main.py continues with
\* the next image, batch_download.py falls through to time.sleep.
AfterException(program) == IF program = "main" THEN "for" ELSE "sleep"

\* The except clause of the loop body, for an exception of the given stage.
Caught(stage) ==
    /\ failed' = [failed EXCEPT ![img_info] = stage]
    /\ pc' = AfterException(prog)

\* scrambled_data = download_image(img_info.url, ...) returns
DownloadImage ==
    /\ pc = "exists"
    /\ ~Exists(img_info)
    /\ scrambled_data' \in Payloads
    /\ downloads' = downloads + 1
    /\ pc' = "open"
    /\ UNCHANGED <<numVars, downloadVars, restoreVars, prog, album, img_info, files,
                   failed, run, prev_ok, start_files>>

\* download_image raises (unsafe URL, HTTP error, body too large)
DownloadRaises ==
    /\ pc = "exists"
    /\ ~Exists(img_info)
    /\ Caught("download")
    /\ downloads' = downloads + 1
    /\ UNCHANGED <<numVars, downloadVars, restoreVars, prog, album, img_info, files,
                   scrambled_data, run, prev_ok, start_files>>

\* restore_image: scrambled_img = Image.open(BytesIO(scrambled_data))
ImageOpen ==
    /\ pc = "open"
    /\ scrambled_data # Garbage
    /\ scrambled_img' = scrambled_data
    /\ num_segments' = Unset
    /\ restored_img' = NoImage
    /\ g' = Unset
    /\ h' = Unset
    /\ u' = Unset
    /\ p' = Unset
    /\ written' = ZeroCounts(scrambled_data.size[2])
    /\ taken' = ZeroCounts(scrambled_data.size[2])
    /\ orig' = NoImage
    /\ kind' = "download"
    /\ pc' = "get_num"
    /\ UNCHANGED <<numVars, downloadVars, runVars, loopVars>>

\* restore_image: Image.open raises on bytes that are no image
ImageOpenRaises ==
    /\ pc = "open"
    /\ scrambled_data = Garbage
    /\ Caught("restore")
    /\ UNCHANGED <<numVars, downloadVars, runVars, restoreVars, prog, album, img_info, files,
                   scrambled_data>>

\* restore_image: num_segments = get_num(aid, photo_id)
ComputeSegments ==
    /\ pc = "get_num"
    /\ num_segments' = get_num(album.aid, album.images[img_info].photo_id)
    /\ pc' = "check"
    /\ UNCHANGED <<numVars, downloadVars, runVars, loopVars, scrambled_img, restored_img, g, h, u,
                   p, written, taken, orig, kind>>

\* restored_img.save(output_path)
Save ==
    /\ pc = "returned"
    /\ prog # "none"
    /\ files' = [files EXCEPT ![img_info] = restored_img]
    /\ pc' = "sleep"
    /\ UNCHANGED <<numVars, downloadVars, runVars, restoreVars, prog, album, img_info, failed,
                   scrambled_data>>

\* restored_img.save(output_path) raises; the file it had opened is removed
\* or stays behind truncated.
SaveRaises ==
    /\ pc = "returned"
    /\ prog # "none"
    /\ \E left \in {NoImage, Truncated} :
          files' = [files EXCEPT ![img_info] = left]
    /\ Caught("save")
    /\ UNCHANGED <<numVars, downloadVars, runVars, restoreVars, prog, album, img_info,
                   scrambled_data>>

\* time.sleep(delay + random.uniform(...)) at the end of the loop body
Sleep ==
    /\ pc = "sleep"
    /\ pc' = "for"
    /\ UNCHANGED <<numVars, downloadVars, runVars, loopVars, restoreVars>>

\* KeyboardInterrupt is no Exception: it leaves the loop and the program
\* ends in sys.exit(1).
KeyboardInterrupt ==
    /\ prog # "none"
    /\ pc \notin {"done", "interrupted"}
    /\ pc' = "interrupted"
    /\ UNCHANGED <<numVars, downloadVars, runVars, loopVars, restoreVars>>

\* Number of times the program is run on the same album and directory.
MaxRuns == 2

\* The program is started again on the same album and output directory,
\* after it ended (done, or sys.exit(1) after an interrupt).
Rerun ==
    /\ pc \in {"done", "interrupted"}
    /\ run < MaxRuns
    /\ run' = run + 1
    /\ prev_ok' = (pc = "done" /\ \A k \in DOMAIN failed : failed[k] = "none")
    /\ start_files' = files
    /\ downloads' = 0
    /\ failed' = [k \in DOMAIN failed |-> "none"]
    /\ img_info' = 0
    /\ scrambled_data' = NoImage
    /\ scrambled_img' = NoImage
    /\ num_segments' = Unset
    /\ restored_img' = NoImage
    /\ g' = Unset
    /\ h' = Unset
    /\ u' = Unset
    /\ p' = Unset
    /\ written' = <<>>
    /\ taken' = <<>>
    /\ orig' = NoImage
    /\ kind' = "none"
    /\ pc' = "for"
    /\ UNCHANGED <<numVars, downloadVars, prog, album, files>>

Next ==
    \/ ForNext \/ ForEnd \/ SkipExisting
    \/ DownloadImage \/ DownloadRaises
    \/ ImageOpen \/ ImageOpenRaises \/ ComputeSegments
    \/ PassThrough \/ Allocate \/ BandIter \/ Return
    \/ Save \/ SaveRaises \/ Sleep
    \/ KeyboardInterrupt
    \/ Rerun

Spec == Init /\ [][Next]_vars

(***************************************************************************)
(* scraper.py: download_image                                              *)
(***************************************************************************)
ALLOWED_DOMAINS ==
    {"cdn-msp.18comic.vip", "cdn.18comic.vip", "media.18comic.vip",
     "cdn-msp2.18comic.vip", "cdn-msp3.18comic.vip", "cdn-msp4.18comic.vip"}

MAX_IMAGE_SIZE == 50 * 1024 * 1024

\* chunk_size of response.iter_bytes
ChunkSize == 8192

\* The URLs download_image is called with, by their parts:
\* scheme://[userinfo@]host[:port]/path
Urls ==
    [scheme : {"https", "HTTPS", "http"},
     userinfo : {"", "user"},
     host : {"cdn-msp.18comic.vip", "CDN.18comic.vip", "18comic.vip",
             "evil.example"},
     port : {"", "443"}]

\* str.lower() of a scheme.
lower(scheme) ==
    CASE scheme = "HTTPS" -> "https"
      [] scheme = "HTTP" -> "http"
      [] OTHER -> scheme

\* urlparse(url): the scheme comes out in lower case, the netloc is all
\* that stands between "//" and the path, as written.
urlparse(address) ==
    [scheme |-> lower(address.scheme),
     netloc |-> (IF address.userinfo = "" THEN ""
                 ELSE address.userinfo \o "@")
                    \o address.host
                    \o (IF address.port = "" THEN ""
                        ELSE ":" \o address.port)]

\* The check with the whitelist left out.
is_safe_url_SchemeOnly(address) == urlparse(address).scheme = "https"

is_safe_url(address) ==
    LET parsed == urlparse(address)
    IN  IF parsed.scheme # "https" THEN FALSE
        ELSE IF parsed.netloc \notin ALLOWED_DOMAINS THEN FALSE
        ELSE TRUE

\* A response without a content-length header, and one whose header is no
\* number.
NoHeader == -1

BadHeader == -2

\* The answers of the server: status, content-length header, body length.
Responses ==
    [status : {200, 404},
     content_length : {NoHeader, BadHeader, 1, MAX_IMAGE_SIZE,
                       MAX_IMAGE_SIZE + 1},
     body : {0, 1, ChunkSize + 1, MAX_IMAGE_SIZE, MAX_IMAGE_SIZE + 1,
             MAX_IMAGE_SIZE + ChunkSize}]

InitDownload ==
    /\ NumIdle
    /\ LoopIdle
    /\ RestoreIdle
    /\ RunIdle
    /\ url \in Urls
    /\ response = NoResponse
    /\ data = Unset
    /\ requests = 0
    /\ raised = "none"
    /\ pc = "dl_start"

\* How a call of download_image ends in an exception: data is lost.
Raise(exception) ==
    /\ raised' = exception
    /\ data' = Unset
    /\ pc' = "dl_end"

\* if not is_safe_url(url): raise ValueError
UnsafeUrl ==
    /\ pc = "dl_start"
    /\ ~is_safe_url(url)
    /\ Raise("ValueError")
    /\ UNCHANGED <<numVars, loopVars, restoreVars, runVars, url, response,
                   requests>>

\* client.stream("GET", url, ...) sends the request and gets an answer
SendRequest ==
    /\ pc = "dl_start"
    /\ is_safe_url(url)
    /\ requests' = requests + 1
    /\ response' \in Responses
    /\ pc' = "dl_status"
    /\ UNCHANGED <<numVars, loopVars, restoreVars, runVars, url, data,
                   raised>>

\* client.stream("GET", url, ...) sends the request and fails (no
\* connection, timeout)
RequestFails ==
    /\ pc = "dl_start"
    /\ is_safe_url(url)
    /\ requests' = requests + 1
    /\ Raise("TransportError")
    /\ UNCHANGED <<numVars, loopVars, restoreVars, runVars, url, response>>

\* response.raise_for_status() raises
StatusRaises ==
    /\ pc = "dl_status"
    /\ response.status >= 400
    /\ Raise("HTTPStatusError")
    /\ UNCHANGED <<numVars, loopVars, restoreVars, runVars, url, response,
                   requests>>

\* int(content_length) raises ValueError, or is above MAX_IMAGE_SIZE
HeaderRaises ==
    /\ pc = "dl_status"
    /\ response.status < 400
    /\ response.content_length # NoHeader
    /\ \/ response.content_length = BadHeader
       \/ response.content_length > MAX_IMAGE_SIZE
    /\ Raise("ValueError")
    /\ UNCHANGED <<numVars, loopVars, restoreVars, runVars, url, response,
                   requests>>

\* the content-length check passes: data = b""
HeaderPasses ==
    /\ pc = "dl_status"
    /\ response.status < 400
    /\ \/ response.content_length = NoHeader
       \/ /\ response.content_length # BadHeader
          /\ response.content_length <= MAX_IMAGE_SIZE
    /\ data' = 0
    /\ pc' = "dl_read"
    /\ UNCHANGED <<numVars, loopVars, restoreVars, runVars, url, response,
                   requests, raised>>

\* The length of the next chunk of iter_bytes.
NextChunk == IF response.body - data < ChunkSize THEN response.body - data
             ELSE ChunkSize

\* data += chunk, and len(data) is within the limit
ReadChunk ==
    /\ pc = "dl_read"
    /\ data < response.body
    /\ data + NextChunk <= MAX_IMAGE_SIZE
    /\ data' = data + NextChunk
    /\ UNCHANGED <<numVars, loopVars, restoreVars, runVars, url, response,
                   requests, raised, pc>>

\* data += chunk, and len(data) > MAX_IMAGE_SIZE: raise ValueError
ReadTooLarge ==
    /\ pc = "dl_read"
    /\ data < response.body
    /\ data + NextChunk > MAX_IMAGE_SIZE
    /\ Raise("ValueError")
    /\ UNCHANGED <<numVars, loopVars, restoreVars, runVars, url, response,
                   requests>>

\* iter_bytes raises while the body is read
ReadFails ==
    /\ pc = "dl_read"
    /\ data < response.body
    /\ Raise("TransportError")
    /\ UNCHANGED <<numVars, loopVars, restoreVars, runVars, url, response,
                   requests>>

\* return data, after the last chunk
ReturnData ==
    /\ pc = "dl_read"
    /\ data = response.body
    /\ raised' = "returned"
    /\ pc' = "dl_end"
    /\ UNCHANGED <<numVars, loopVars, restoreVars, runVars, url, response,
                   data, requests>>

NextDownload ==
    \/ UnsafeUrl \/ SendRequest \/ RequestFails
    \/ StatusRaises \/ HeaderRaises \/ HeaderPasses
    \/ ReadChunk \/ ReadTooLarge \/ ReadFails \/ ReturnData

SpecDownload == InitDownload /\ [][NextDownload]_vars

(***************************************************************************)
(* Properties of the band loop                                             *)
(***************************************************************************)
\* How often value v occurs among the rows of img.
Occurrences(img, v) == Cardinality({k \in DOMAIN img.rows : img.rows[k] = v})

SameRowMultiset(a, b) ==
    /\ Len(a.rows) = Len(b.rows)
    /\ \A v \in 0..Len(a.rows) : Occurrences(a, v) = Occurrences(b, v)

\* C1: for 1 <= N <= 20 and N <= H the band loop never reads a source row
\* or writes a destination row twice, and when it returns every source row
\* was read once, every destination row written once, and the result has
\* the size of the source and the same rows up to their order.
C1_PixelConservation ==
    (pc \in {"bands", "returned"} /\ num_segments >= 1
        /\ num_segments <= scrambled_img.size[2])
    => /\ \A k \in DOMAIN written : written[k] <= 1
       /\ \A k \in DOMAIN taken : taken[k] <= 1
       /\ pc = "returned"
            => /\ \A k \in DOMAIN written : written[k] = 1
               /\ \A k \in DOMAIN taken : taken[k] = 1
               /\ restored_img.size = scrambled_img.size
               /\ restored_img.mode = scrambled_img.mode
               /\ SameRowMultiset(restored_img, scrambled_img)

\* C1 witness: the loop has returned for H = 21, N = 20 (remainder 1) and
\* has moved rows.
C1_Witness ==
    /\ pc = "returned"
    /\ kind = "plain"
    /\ scrambled_img.size[2] = 21
    /\ num_segments = 20
    /\ restored_img # scrambled_img

\* C2 as stated: the forward scramble that subtracts the remainder for band
\* 0 only, followed by the band loop, gives back the original image.
C2_AsStated ==
    (pc = "returned" /\ kind = "band0"
        /\ num_segments <= scrambled_img.size[2])
    => restored_img = orig

\* C2: the forward scramble that subtracts the remainder for every band,
\* followed by the band loop, gives back the original image, for every
\* N <= H; the scramble that subtracts it for band 0 only is inverted
\* when N divides H.
C2_InverseOfForward ==
    (pc = "returned" /\ num_segments <= scrambled_img.size[2])
    => /\ kind = "every" => restored_img = orig
       /\ (kind = "band0" /\ scrambled_img.size[2] % num_segments = 0)
            => restored_img = orig

\* C2 witness: a round trip with H mod N # 0 through a scrambled image that
\* differs from the original.
C2_Witness ==
    /\ pc = "returned"
    /\ kind = "every"
    /\ num_segments <= scrambled_img.size[2]
    /\ scrambled_img.size[2] % num_segments # 0
    /\ scrambled_img # orig
    /\ restored_img = orig

\* C11: the pass for band 0 has height sliceHeight + remainder, destination
\* top 0 and source top H - sliceHeight - remainder; the pass for a band
\* b >= 1 has height sliceHeight, destination top sliceHeight * b +
\* remainder and source top H - sliceHeight * (b + 1) - remainder; the rows
\* pasted are the rows of that source strip; for H = 100, N = 3 the strips
\* are [66,100) to [0,34), [33,66) to [34,67) and [0,33) to [67,100).
C11_BandGeometry ==
    (pc \in {"bands", "returned"} /\ g >= 1)
    => LET height == scrambled_img.size[2]
           slice == height \div num_segments
           rest == height % num_segments
           band == g - 1
       IN  /\ band = 0
                => h = slice + rest /\ u = 0 /\ p = height - slice - rest
           /\ band >= 1
                => /\ h = slice
                   /\ u = slice * band + rest
                   /\ p = height - slice * (band + 1) - rest
           /\ \A k \in 1..h :
                 restored_img.rows[u + k] = scrambled_img.rows[p + k]
           /\ (height = 100 /\ num_segments = 3)
                => /\ band = 0 => <<p, p + h, u, u + h>> = <<66, 100, 0, 34>>
                   /\ band = 1 => <<p, p + h, u, u + h>> = <<33, 66, 34, 67>>
                   /\ band = 2 => <<p, p + h, u, u + h>> = <<0, 33, 67, 100>>

\* C11 witness: the last of the three passes for H = 100, N = 3.
C11_Witness ==
    /\ pc = "returned"
    /\ scrambled_img.size[2] = 100
    /\ num_segments = 3
    /\ g = 3
    /\ <<p, h, u>> = <<0, 33, 67>>

\* C12: for 1 <= N <= H the strip read and the strip written of every pass
\* lie inside the image, the last pass reads from row 0, and when N does not
\* divide H band 0 alone is taller than sliceHeight, by the remainder.
C12_BandsInside ==
    (pc \in {"bands", "returned"} /\ g >= 1 /\ num_segments >= 1
        /\ num_segments <= scrambled_img.size[2])
    => LET height == scrambled_img.size[2]
           slice == height \div num_segments
           rest == height % num_segments
       IN  /\ p >= 0
           /\ p + h <= height
           /\ u >= 0
           /\ u + h <= height
           /\ g = num_segments => p = 0
           /\ rest # 0
                => /\ g = 1 => h = slice + rest /\ h > slice
                   /\ g > 1 => h = slice

\* C12 witness: the last pass for H = 22, N = 4 (remainder 2) reads the
\* strip at row 0.
C12_Witness ==
    /\ pc = "returned"
    /\ scrambled_img.size[2] = 22
    /\ num_segments = 4
    /\ g = 4
    /\ p = 0
    /\ h = 5

\* The source row (from 1) that lands at destination row j (from 1) of an
\* image of the given height cut into num bands.
RowSource(height, num, j) ==
    LET slice == height \div num
        rest == height % num
    IN  IF j <= slice + rest
        THEN height - slice - rest + j
        ELSE LET band == (j - rest - 1) \div slice
             IN  height - slice * (band + 1) - rest
                     + (j - (slice * band + rest))

\* C13: whatever the width, the mode and the row contents of the image, the
\* row at destination j of the result is the source row RowSource(H, N, j),
\* which depends on H and N only; width and mode are carried over.
C13_MappingFromSizeOnly ==
    pc = "returned"
    => LET height == scrambled_img.size[2]
       IN  /\ restored_img.size = scrambled_img.size
           /\ restored_img.mode = scrambled_img.mode
           /\ \A j \in 1..height :
                 restored_img.rows[j] =
                     scrambled_img.rows[RowSource(height, num_segments, j)]

\* C13 witness: an image of mode L, width 2 and rows that are not the
\* labels 1..H has been rearranged for H = 7, N = 3.
C13_Witness ==
    /\ pc = "returned"
    /\ scrambled_img.mode = "L"
    /\ scrambled_img.size = <<2, 7>>
    /\ kind = "band0"
    /\ num_segments = 3
    /\ restored_img # scrambled_img

C8_PassThrough ==
    (kind = "download" /\ num_segments = 0 /\ pc = "returned")
    => /\ album.aid < 220980
       /\ restored_img = scrambled_img
       /\ restored_img.size = scrambled_data.size
       /\ restored_img.rows = scrambled_data.rows
       /\ g = Unset
       /\ \A k \in DOMAIN written : written[k] = 0

\* C8 witness: restore_image has returned for album 220979 and an image of
\* 3 rows.
C8_Witness ==
    /\ pc = "returned"
    /\ album.aid = 220979
    /\ num_segments = 0
    /\ scrambled_img.size[2] = 3
    /\ restored_img.rows = <<1, 2, 3>>

(***************************************************************************)
(* Properties of get_num                                                   *)
(***************************************************************************)
SegmentCounts == {2, 4, 6, 8, 10, 12, 14, 16, 18, 20}

\* C4: get_num returns 0 exactly for album ids below 220980; from 220980 on
\* it returns a nonzero member of the table.
C4_Threshold ==
    call # NoCall
    => /\ call.aid <= 220979 => call.ret = 0
       /\ call.aid >= 220980 => call.ret # 0 /\ call.ret \in SegmentCounts

\* C4 witness: get_num was called for 220979 and then for 220980.
C4_Witness ==
    /\ memo.aid = 220979
    /\ memo.ret = 0
    /\ call.aid = 220980
    /\ call.ret # 0

\* C5: from album id 421926 on get_num returns one of the first 8 table
\* entries, never 18 or 20; for 268850..421925 it returns a table entry.
C5_ModulusRange ==
    call # NoCall
    => /\ call.aid >= 421926 => call.ret \in {2, 4, 6, 8, 10, 12, 14, 16}
       /\ (call.aid >= 268850 /\ call.aid <= 421925)
            => call.ret \in SegmentCounts

\* C5 witness: a digest ending in "1" (code 49, 9 modulo 10, 1 modulo 8) for
\* album 421926, and one for album 421925.
C5_Witness ==
    /\ call.aid = 421926
    /\ call.last_char = "1"
    /\ call.ret = 4
    /\ memo.aid = 421925
    /\ memo.last_char = "1"
    /\ memo.ret = 20

\* The code point of a hex digit, from the ASCII table.
CodePoint(c) ==
    CASE c \in {"0", "1", "2", "3", "4", "5", "6", "7", "8", "9"} ->
             48 + (CHOOSE d \in 0..9 : DecimalDigit[d + 1] = c)
      [] c = "a" -> 97 [] c = "b" -> 98 [] c = "c" -> 99
      [] c = "d" -> 100 [] c = "e" -> 101 [] c = "f" -> 102

\* C6: from album id 220980 on get_num returns table[ord(d) mod m], d the
\* last hex digit of MD5(str(aid) + photo_id), m = 8 from 421926 on and 10
\* below; get_num(1223474, "00001") is 6 (digit "2", code 50, index 2).
C6_TableLookup ==
    (call # NoCall /\ call.aid >= 220980)
    => /\ call.last_char = md5_last_char(str(call.aid) \o call.photo_id)
       /\ LET m == IF call.aid >= 421926 THEN 8 ELSE 10
              table == <<2, 4, 6, 8, 10, 12, 14, 16, 18, 20>>
          IN  call.ret = table[(CodePoint(call.last_char) % m) + 1]
       /\ (call.aid = 1223474 /\ call.photo_id = "00001")
            => /\ call.last_char = "2"
               /\ call.char_code = 50
               /\ call.index = 2
               /\ call.ret = 6

\* C6 witness: the call of the regression test.
C6_Witness ==
    /\ call.aid = 1223474
    /\ call.photo_id = "00001"
    /\ call.ret = 6

\* C7: get_num never fails: it returns 0 or a table entry, and an index it
\* computes is a position 0..9 of the table.
C7_Total ==
    call # NoCall
    => /\ call.ret # IndexError
       /\ call.ret \in {0} \cup SegmentCounts
       /\ call.aid >= SCRAMBLE_THRESHOLD
            => call.index >= 0 /\ call.index <= 9

\* C7 witness: a call with a photo id that is no number, whose index is the
\* last position of the table.
C7_Witness ==
    /\ call.photo_id = "cover"
    /\ call.aid = 268850
    /\ call.index \in 0..9
    /\ memo.index = 9
    /\ memo.ret = 20

C10_FailureIsolated ==
    /\ [][(failed' # failed
             /\ failed'[img_info] \in {"download", "restore"})
          => /\ files' = files
             /\ files[img_info] = NoImage
             /\ img_info' = img_info
             /\ pc' \in {"for", "sleep"}]_vars
    /\ [](pc = "done"
            => /\ img_info = Len(album.images)
               /\ \A k \in DOMAIN failed :
                     failed[k] \in {"download", "restore"}
                         => files[k] = NoImage)

\* C10 witness: the loop is done, image 1 failed and has no file, image 2
\* was then restored and saved.
C10_Witness ==
    /\ pc = "done"
    /\ Len(album.images) = 2
    /\ failed[1] \in {"download", "restore"}
    /\ files[1] = NoImage
    /\ failed[2] = "none"
    /\ files[2] = restored_img
    /\ files[2].size[2] = 4

\* C14: an image whose file exists is not downloaded, not restored and its
\* file is not changed; and a run that follows a run in which no image
\* failed calls download_image for no image and leaves every file as it
\* found it.
C14_Idempotent ==
    /\ [][/\ \A k \in DOMAIN files :
               files[k] # NoImage => files'[k] = files[k]
          /\ downloads' > downloads => files[img_info] = NoImage]_vars
    /\ [](pc \in {"open", "get_num", "check", "bands", "returned"}
            => files[img_info] = NoImage)
    /\ [](prev_ok => downloads = 0 /\ files = start_files)

\* C14 witness: the second run is done after a first run that restored and
\* saved both images; it downloaded nothing and changed no file.
C14_Witness ==
    /\ pc = "done"
    /\ run = 2
    /\ prev_ok
    /\ Len(album.images) = 2
    /\ files[1].size[2] = 4
    /\ files[2].size[2] = 5
    /\ downloads = 0
    /\ files = start_files

(***************************************************************************)
(* Properties of download_image                                            *)
(***************************************************************************)
\* C15: for a URL whose scheme is not https or whose host is not one of the
\* allowed domains download_image raises ValueError with no request sent
\* and no data; data it returns is the whole body and at most 50 MiB; a
\* body above 50 MiB never comes back as data and, unless the server
\* answered with an error status or the connection broke, ends in
\* ValueError.
C15_SafeDownload ==
    /\ (pc = "dl_end"
          /\ \/ lower(url.scheme) # "https"
             \/ url.host \notin
                   {"cdn-msp.18comic.vip", "cdn.18comic.vip",
                    "media.18comic.vip", "cdn-msp2.18comic.vip",
                    "cdn-msp3.18comic.vip", "cdn-msp4.18comic.vip"})
         => raised = "ValueError" /\ requests = 0 /\ data = Unset
    /\ raised = "returned"
         => data = response.body /\ data <= 52428800
    /\ (pc = "dl_end" /\ response # NoResponse /\ response.body > 52428800)
         => /\ raised # "returned"
            /\ data = Unset
            /\ (response.status < 400 /\ raised # "TransportError")
                  => raised = "ValueError"

\* C15 witness: download_image has ended for https://evil.example/...
C15_Witness ==
    /\ pc = "dl_end"
    /\ url = [scheme |-> "https", userinfo |-> "", host |-> "evil.example",
              port |-> ""]
    /\ raised = "ValueError"
    /\ requests = 0

====
